---- MODULE Spec2Model ----
(***************************************************************************)
(* Model of davidpd7/big_query: the Config singleton (src/config),         *)
(* the two Table descriptor classes (src/table.py, src/bigquery/table.py)  *)
(* and the BigQuery wrapper's load operation (src/bigquery.py).            *)
(*                                                                         *)
(* Python values are modelled as strings; a list object (a schema) is      *)
(* modelled by a reference, a string key into SchemaDef.  None is the      *)
(* string "None".  An object's attributes are a function from attribute    *)
(* names to values, so that a missing attribute and setattr are modelled.  *)
(***************************************************************************)
EXTENDS Integers, Sequences, FiniteSets, TLC

VARIABLES config, cfgLast, tables, load, remote

vars == <<config, cfgLast, tables, load, remote>>

None == "None"
NoErr == "none"

\* ---------------------------------------------------------------- bounds
MaxCalls == 2   \* direct accessor calls on one descriptor
MaxCtor == 2    \* explicit Config(...) constructions
MaxRows == 1    \* rows of the DataFrame handed to a load

Slots == {"t1", "t2"}   \* the Table(...) expressions evaluated
Procs == {"p1", "p2"}   \* the callers of load_data_to_bigquery

\* ------------------------------------------------- configuration files
\* The files Config.__init__ may be pointed at: the default one, a second
\* well-formed one, one that does not exist and one that is not JSON.
FileNames == {"config.json", "alt.json", "missing.json", "bad.json"}

DefaultFile == "config.json"

FileTree(fname) ==
  IF fname = "alt.json"
  THEN [data |-> [dataset_id |-> "ds1",
                  location |-> "US",
                  tables |-> [events |-> [table_id |-> "proj.ds1.events_v2",
                                          schema |-> "schema:events"]]]]
  ELSE [data |-> [dataset_id |-> "ds1",
                  location |-> "EU",
                  tables |-> [events |-> [table_id |-> "proj.ds1.events",
                                          schema |-> "schema:events"],
                              stores |-> [table_id |-> "proj.ds1.stores",
                                          schema |-> "schema:stores"]]]]

\* open() + json.load() of a file: the error raised, or none
FileError(fname) ==
  IF fname = "missing.json" THEN "FileNotFoundError"
  ELSE IF fname = "bad.json" THEN "JSONDecodeError"
  ELSE NoErr

\* The list objects schemas refer to.
SchemaDef(ref) ==
  IF ref = "schema:events"
  THEN <<[name |-> "ts", type |-> "DATE", mode |-> "NULLABLE"],
         [name |-> "val", type |-> "FLOAT", mode |-> "NULLABLE"]>>
  ELSE IF ref = "schema:stores"
  THEN <<[name |-> "store_id", type |-> "INTEGER", mode |-> "REQUIRED"],
         [name |-> "location", type |-> "STRING", mode |-> "NULLABLE"]>>
  ELSE IF ref = "schema:custom"
  THEN <<[name |-> "id", type |-> "INTEGER", mode |-> "REQUIRED"]>>
  ELSE <<>>

\* Inputs of Table(...)
TableNames == {"events", "stores", "ghost"}
TableIdArgs == {None, "proj.ds1.custom"}
SchemaArgs == {None, "schema:custom"}
LocationArgs == {None, "asia"}
Variants == {"cfg", "ovr"}   \* src/table.py, src/bigquery/table.py
Accessors == {"table_id", "dataset_id", "schema", "location"}

\* ------------------------------------------------------------- Config
\* config = [instance, data, debug, made]: Config.__instance (0 is None,
\* else the identity of the installed object), the installed object's
\* data attribute ({} while the attribute is not set, else {tree}), its
\* __debug attribute and the number of Config objects ever constructed.

Raise(cs, e) == [cs |-> cs, err |-> e, val |-> None]
Return(cs, v) == [cs |-> cs, err |-> NoErr, val |-> v]

\* A Config.__init__ that installs itself whatever is installed already.
ConfigInitReinstall(cs, fname) ==
  LET self == cs.made + 1
      c1 == [cs EXCEPT !.made = self, !.instance = self, !.data = {}, !.debug = "unset"]
  IN IF FileError(fname) # NoErr
     THEN Raise(c1, FileError(fname))
     ELSE Return([c1 EXCEPT !.data = {FileTree(fname)}, !.debug = "False"], None)

\* Config.__init__(config_json_filename)
ConfigInit(cs, fname) ==
  LET self == cs.made + 1
      c0 == [cs EXCEPT !.made = self]
  IN IF cs.instance = 0
     THEN LET c1 == [c0 EXCEPT !.instance = self]
          IN IF FileError(fname) # NoErr
             THEN Raise(c1, FileError(fname))
             ELSE Return([c1 EXCEPT !.data = {FileTree(fname)}, !.debug = "False"], None)
     ELSE Raise(c0, "UsageError")

\* Config.instance(): val is the instance returned
ConfigInstance(cs) ==
  IF cs.instance = 0
  THEN LET r == ConfigInit(cs, DefaultFile)
       IN IF r.err # NoErr THEN r ELSE Return(r.cs, r.cs.instance)
  ELSE Return(cs, cs.instance)

\* A lookup loop in the manner of dict.get: a missing key gives None.
RECURSIVE WalkGet(_, _, _)
WalkGet(cs, data, items) ==
  IF items = <<>> THEN Return(cs, data)
  ELSE IF Head(items) \in DOMAIN data
       THEN WalkGet(cs, data[Head(items)], Tail(items))
       ELSE Return(cs, None)

\* the loop of cfg_item: data = data[key] for each key
RECURSIVE Walk(_, _, _)
Walk(cs, data, items) ==
  IF items = <<>> THEN Return(cs, data)
  ELSE IF Head(items) \in DOMAIN data
       THEN Walk(cs, data[Head(items)], Tail(items))
       ELSE Raise(cs, "KeyError")

\* cfg_item(*items)
cfg_item(cs, items) ==
  LET r == ConfigInstance(cs)
  IN IF r.err # NoErr THEN r
     ELSE IF r.cs.data = {} THEN Raise(r.cs, "AttributeError")
     ELSE Walk(r.cs, CHOOSE t \in r.cs.data : TRUE, items)

\* -------------------------------------------------------------- Table
\* A slot is one evaluation of Table(...): free before it, then live (the
\* object) or raised (the constructor's exception, err).  name and ovr
\* record the constructor's arguments, attrs the object's attributes;
\* calls, lookups, first and last record, per accessor, the calls made
\* from outside the class, the cfg_item calls made in all, and the first
\* and the latest outcome.

NoResult == [err |-> "never", val |-> None]

FreeSlot ==
  [status |-> "free", variant |-> "cfg", name |-> None,
   ovr |-> [table_id |-> None, schema |-> None, location |-> None],
   attrs |-> [table_name |-> None], err |-> NoErr,
   calls |-> [a \in Accessors |-> 0],
   lookups |-> [a \in Accessors |-> 0],
   first |-> [a \in Accessors |-> NoResult],
   last |-> [a \in Accessors |-> NoResult]]

\* the path an accessor hands to cfg_item
Path(acc, table_name) ==
  IF acc = "table_id" THEN <<"data", "tables", table_name, "table_id">>
  ELSE IF acc = "schema" THEN <<"data", "tables", table_name, "schema">>
  ELSE IF acc = "dataset_id" THEN <<"data", "dataset_id">>
  ELSE <<"data", "location">>

Out(cs, attrs, err, val, looked) ==
  [cs |-> cs, attrs |-> attrs, err |-> err, val |-> val, looked |-> looked]

\* src/table.py: get_table_id, get_dataset_id, get_table_schema, get_location
GetFromConfig(cs, attrs, acc) ==
  LET r == cfg_item(cs, Path(acc, attrs["table_name"]))
  IN Out(r.cs, attrs, r.err, r.val, 1)

\* src/bigquery/table.py: the same four; the attribute acc holds the
\* override or the cached value, and self.dataset_id is read although no
\* code assigns it
GetCached(cs, attrs, acc) ==
  IF acc \notin DOMAIN attrs THEN Out(cs, attrs, "AttributeError", None, 0)
  ELSE IF attrs[acc] = None
  THEN LET r == cfg_item(cs, Path(acc, attrs["table_name"]))
       IN IF r.err # NoErr
          THEN Out(r.cs, attrs, r.err, None, 1)
          ELSE Out(r.cs, [attrs EXCEPT ![acc] = r.val], NoErr, r.val, 1)
  ELSE Out(cs, attrs, NoErr, attrs[acc], 0)

Accessor(variant, cs, attrs, acc) ==
  IF variant = "cfg" THEN GetFromConfig(cs, attrs, acc) ELSE GetCached(cs, attrs, acc)

\* setattr(self, column_name, column_name) for each column of the schema
RECURSIVE SetColumnAttrs(_, _)
SetColumnAttrs(attrs, columns) ==
  IF columns = <<>> THEN attrs
  ELSE LET n == Head(columns).name
       IN SetColumnAttrs([k \in DOMAIN attrs \cup {n} |-> IF k = n THEN n ELSE attrs[k]],
                         Tail(columns))

\* attr_columns
attr_columns(variant, cs, attrs) ==
  LET r == Accessor(variant, cs, attrs, "schema")
  IN IF r.err # NoErr THEN r
     ELSE Out(r.cs, SetColumnAttrs(r.attrs, SchemaDef(r.val)), NoErr, None, r.looked)

\* Table.__init__
TableInit(variant, cs, name, tid, sch, loc) ==
  attr_columns(variant, cs,
               IF variant = "cfg"
               THEN [table_name |-> name]
               ELSE [table_name |-> name, table_id |-> tid, schema |-> sch, location |-> loc])

\* the descriptor after a call of accessor acc with outcome r
Recorded(t, acc, r) ==
  LET res == [err |-> r.err, val |-> r.val]
  IN [t EXCEPT !.attrs = r.attrs,
               !.calls[acc] = @ + 1,
               !.lookups[acc] = @ + r.looked,
               !.first[acc] = IF t.calls[acc] = 0 THEN res ELSE @,
               !.last[acc] = res]

RECURSIVE SumOver(_, _)
SumOver(f, S) ==
  IF S = {} THEN 0 ELSE LET x == CHOOSE y \in S : TRUE IN f[x] + SumOver(f, S \ {x})

\* ------------------------------------------------- remote service
\* remote = [datasets, tables]: per dataset id its location or None, per
\* table id its number of rows, -1 while the table does not exist.
DatasetIds == {"ds1"}
RemoteTableIds == {"proj.ds1.events", "proj.ds1.events_v2", "proj.ds1.stores",
                   "proj.ds1.custom"}
Absent == -1

\* the outcomes of client.get_dataset(dataset_id)
GetDatasetSignals(rs, dataset_id) ==
  {IF rs.datasets[dataset_id] = None THEN "NotFound" ELSE "ok", "Forbidden"}

\* the outcomes of client.create_dataset(dataset)
CreateDatasetSignals(rs, dataset_id) ==
  {IF rs.datasets[dataset_id] = None THEN "ok" ELSE "Conflict", "Forbidden", "NotFound"}

\* the outcomes of client.get_table(table_id)
GetTableSignals(rs, table_id) ==
  {IF rs.tables[table_id] = Absent THEN "NotFound" ELSE "ok", "Forbidden"}

\* the outcomes of client.load_table_from_dataframe(...)
SubmitSignals == {"ok", "Forbidden", "NotFound"}

\* the outcomes of load_job.result(): the job runs under its write
\* disposition; WRITE_EMPTY refuses a table that holds data
ResultSignals(rs, table_id, write) ==
  {IF write = "WRITE_EMPTY" /\ rs.tables[table_id] > 0 THEN "Duplicate" ELSE "ok",
   "Forbidden", "NotFound"}

\* the table after a load job of n rows has run
Loaded(rs, table_id, n) ==
  [rs EXCEPT !.tables[table_id] = IF @ = Absent THEN n ELSE @ + n]

\* ------------------------------------------------------ BigQuery
\* load[p] = [pc, tbl, rows, dataset_id, table_id, exists, job, log, signals,
\* outcome]: the position of caller p in load_data_to_bigquery, its
\* arguments and locals, the remote calls it has issued with the outcome
\* of each, and what the call gave its caller ("none" while it runs).

Idle ==
  [pc |-> "idle", tbl |-> None, rows |-> 0, dataset_id |-> None, table_id |-> None,
   exists |-> "unknown", job |-> [schema |-> None, write |-> "none"],
   log |-> <<>>, signals |-> <<>>, outcome |-> NoErr]

\* A check_table_exists whose except clause catches every exception.
CheckTableExistsCatchAll(sig) ==
  IF sig = "ok" THEN [err |-> NoErr, val |-> "True"] ELSE [err |-> NoErr, val |-> "False"]

\* check_table_exists, given the outcome of client.get_table
check_table_exists(sig) ==
  IF sig = "ok" THEN [err |-> NoErr, val |-> "True"]
  ELSE IF sig = "NotFound" THEN [err |-> NoErr, val |-> "False"]
  ELSE [err |-> sig, val |-> None]

\* A job_config with the two branches exchanged.
JobConfigSwapped(schema, exists) ==
  IF exists = "True"
  THEN [schema |-> schema, write |-> "WRITE_EMPTY"]
  ELSE [schema |-> schema, write |-> "WRITE_APPEND"]

\* A job_config that appends whatever the check returned.
JobConfigAlwaysAppend(schema, exists) ==
  [schema |-> schema, write |-> "WRITE_APPEND"]

\* job_config, given what check_table_exists returned
job_config(schema, exists) ==
  IF exists = "True"
  THEN [schema |-> schema, write |-> "WRITE_APPEND"]
  ELSE [schema |-> schema, write |-> "WRITE_EMPTY"]

Called(l, call, sig) ==
  [l EXCEPT !.log = Append(@, call), !.signals = Append(@, sig)]

Raised(l, e) == [l EXCEPT !.pc = "done", !.outcome = e]

\* --------------------------------------------------------- operations
Init ==
  /\ config = [instance |-> 0, data |-> {}, debug |-> "unset", made |-> 0]
  /\ cfgLast = [n |-> 0, err |-> NoErr]
  /\ tables = [d \in Slots |-> FreeSlot]
  /\ load = [p \in Procs |-> Idle]
  /\ \E ds \in {None, "EU"}, r \in {Absent, 0, 1} :
       /\ ds = None => r = Absent
       /\ remote = [datasets |-> [i \in DatasetIds |-> ds],
                    tables |-> [i \in RemoteTableIds |-> r]]

\* In the operations below an outcome is bound by \E over a singleton set:
\* it is computed once and then used as a value.

\* Config(fname), called by the application
ConfigNew(fname) ==
  /\ cfgLast.n < MaxCtor
  /\ \E r \in {ConfigInit(config, fname)} :
       /\ config' = r.cs
       /\ cfgLast' = [n |-> cfgLast.n + 1, err |-> r.err]
  /\ UNCHANGED <<tables, load, remote>>

\* Config.instance(), called by the application
ConfigInstanceCall ==
  /\ \E r \in {ConfigInstance(config)} :
       /\ config' = r.cs
       /\ cfgLast' = [cfgLast EXCEPT !.err = r.err]
  /\ UNCHANGED <<tables, load, remote>>

\* Table(name, ...) evaluated into a free slot
NewTable(d, variant, name, tid, sch, loc) ==
  /\ tables[d].status = "free"
  /\ variant = "cfg" => (tid = None /\ sch = None /\ loc = None)
  /\ \E r \in {TableInit(variant, config, name, tid, sch, loc)} :
       /\ config' = r.cs
       /\ tables' = [tables EXCEPT ![d] =
                       [FreeSlot EXCEPT !.status = IF r.err = NoErr THEN "live" ELSE "raised",
                                        !.variant = variant,
                                        !.name = name,
                                        !.ovr = [table_id |-> tid, schema |-> sch,
                                                 location |-> loc],
                                        !.attrs = r.attrs,
                                        !.err = r.err,
                                        !.lookups["schema"] = r.looked]]
  /\ UNCHANGED <<cfgLast, load, remote>>

\* t.get_table_id(), t.get_dataset_id(), t.get_table_schema(), t.get_location()
CallAccessor(d, acc) ==
  /\ tables[d].status = "live"
  /\ SumOver(tables[d].calls, Accessors) < MaxCalls
  /\ \E r \in {Accessor(tables[d].variant, config, tables[d].attrs, acc)} :
       /\ config' = r.cs
       /\ tables' = [tables EXCEPT ![d] = Recorded(tables[d], acc, r)]
  /\ UNCHANGED <<cfgLast, load, remote>>

\* load_data_to_bigquery(data, table), lines 147-148: the two identifiers
LoadStart(p, d, n) ==
  /\ load[p].pc = "idle"
  /\ tables[d].status = "live"
  /\ \E r1 \in {Accessor(tables[d].variant, config, tables[d].attrs, "dataset_id")} :
     \E t1 \in {Recorded(tables[d], "dataset_id", r1)} :
     \E l0 \in {[load[p] EXCEPT !.tbl = d, !.rows = n]} :
       IF r1.err # NoErr
       THEN /\ config' = r1.cs
            /\ tables' = [tables EXCEPT ![d] = t1]
            /\ load' = [load EXCEPT ![p] = Raised(l0, r1.err)]
       ELSE \E r2 \in {Accessor(t1.variant, r1.cs, t1.attrs, "table_id")} :
              /\ config' = r2.cs
              /\ tables' = [tables EXCEPT ![d] = Recorded(t1, "table_id", r2)]
              /\ load' = [load EXCEPT ![p] =
                            IF r2.err # NoErr
                            THEN Raised([l0 EXCEPT !.dataset_id = r1.val], r2.err)
                            ELSE [l0 EXCEPT !.dataset_id = r1.val, !.table_id = r2.val,
                                            !.pc = "get_dataset"]]
  /\ UNCHANGED <<cfgLast, remote>>

\* A dataset check followed by the creation whatever the check said.
LoadGetDatasetAlwaysCreate(p) ==
  /\ load[p].pc = "get_dataset"
  /\ \E sig \in GetDatasetSignals(remote, load[p].dataset_id) :
       LET l == Called(load[p], "get_dataset", sig)
       IN load' = [load EXCEPT ![p] =
                     IF sig \in {"ok", "NotFound"} THEN [l EXCEPT !.pc = "create_dataset"]
                     ELSE Raised(l, sig)]
  /\ UNCHANGED <<config, cfgLast, tables, remote>>

\* lines 149-151: client.get_dataset, NotFound caught
LoadGetDataset(p) ==
  /\ load[p].pc = "get_dataset"
  /\ \E sig \in GetDatasetSignals(remote, load[p].dataset_id) :
       LET l == Called(load[p], "get_dataset", sig)
       IN load' = [load EXCEPT ![p] =
                     IF sig = "ok" THEN [l EXCEPT !.pc = "job_config"]
                     ELSE IF sig = "NotFound" THEN [l EXCEPT !.pc = "create_dataset"]
                     ELSE Raised(l, sig)]
  /\ UNCHANGED <<config, cfgLast, tables, remote>>

\* lines 152-154: the dataset is created in "US"
LoadCreateDataset(p) ==
  /\ load[p].pc = "create_dataset"
  /\ \E sig \in CreateDatasetSignals(remote, load[p].dataset_id) :
       LET l == Called(load[p], "create_dataset", sig)
       IN IF sig = "ok"
          THEN /\ remote' = [remote EXCEPT !.datasets[load[p].dataset_id] = "US"]
               /\ load' = [load EXCEPT ![p] = [l EXCEPT !.pc = "job_config"]]
          ELSE /\ remote' = remote
               /\ load' = [load EXCEPT ![p] = Raised(l, sig)]
  /\ UNCHANGED <<config, cfgLast, tables>>

\* line 155: job_config(table.get_table_schema(), table_id)
LoadJobConfig(p) ==
  /\ load[p].pc = "job_config"
  /\ \E t \in {tables[load[p].tbl]} :
     \E r \in {Accessor(t.variant, config, t.attrs, "schema")} :
       /\ config' = r.cs
       /\ tables' = [tables EXCEPT ![load[p].tbl] = Recorded(t, "schema", r)]
       /\ IF r.err # NoErr
          THEN load' = [load EXCEPT ![p] = Raised(load[p], r.err)]
          ELSE \E sig \in GetTableSignals(remote, load[p].table_id) :
               \E c \in {check_table_exists(sig)} :
                 LET l == Called(load[p], "get_table", sig)
                 IN load' = [load EXCEPT ![p] =
                               IF c.err # NoErr THEN Raised(l, c.err)
                               ELSE [l EXCEPT !.exists = c.val,
                                              !.job = job_config(r.val, c.val),
                                              !.pc = "submit"]]
  /\ UNCHANGED <<cfgLast, remote>>

\* line 156: client.load_table_from_dataframe(data, table_id, job_config)
LoadSubmit(p) ==
  /\ load[p].pc = "submit"
  /\ \E sig \in SubmitSignals :
       LET l == Called(load[p], "load_table_from_dataframe", sig)
       IN load' = [load EXCEPT ![p] =
                     IF sig = "ok" THEN [l EXCEPT !.pc = "result"] ELSE Raised(l, sig)]
  /\ UNCHANGED <<config, cfgLast, tables, remote>>

\* A wait for the result that swallows the job's error.
LoadResultSwallow(p) ==
  /\ load[p].pc = "result"
  /\ \E sig \in ResultSignals(remote, load[p].table_id, load[p].job.write) :
       LET l == Called(load[p], "result", sig)
       IN /\ remote' = IF sig = "ok" THEN Loaded(remote, load[p].table_id, load[p].rows)
                       ELSE remote
          /\ load' = [load EXCEPT ![p] = [l EXCEPT !.pc = "done", !.outcome = "ok"]]
  /\ UNCHANGED <<config, cfgLast, tables>>

\* line 157: load_job.result()
LoadResult(p) ==
  /\ load[p].pc = "result"
  /\ \E sig \in ResultSignals(remote, load[p].table_id, load[p].job.write) :
       LET l == Called(load[p], "result", sig)
       IN IF sig = "ok"
          THEN /\ remote' = Loaded(remote, load[p].table_id, load[p].rows)
               /\ load' = [load EXCEPT ![p] = [l EXCEPT !.pc = "done", !.outcome = "ok"]]
          ELSE /\ remote' = remote
               /\ load' = [load EXCEPT ![p] = Raised(l, sig)]
  /\ UNCHANGED <<config, cfgLast, tables>>

TableSlots == {"t1"}

NextTable ==
  \/ \E f \in FileNames : ConfigNew(f)
  \/ ConfigInstanceCall
  \/ \E d \in TableSlots, v \in Variants, n \in TableNames, tid \in TableIdArgs,
        sch \in SchemaArgs, loc \in LocationArgs : NewTable(d, v, n, tid, sch, loc)
  \/ \E d \in TableSlots, a \in Accessors : CallAccessor(d, a)

SpecTable == Init /\ [][NextTable]_vars

NextLoad ==
  \/ \E d \in Slots, v \in Variants, n \in TableNames, tid \in TableIdArgs,
        sch \in SchemaArgs : NewTable(d, v, n, tid, sch, None)
  \/ \E p \in Procs, d \in Slots, n \in 0..MaxRows : LoadStart(p, d, n)
  \/ \E p \in Procs : LoadGetDataset(p)
  \/ \E p \in Procs : LoadCreateDataset(p)
  \/ \E p \in Procs : LoadJobConfig(p)
  \/ \E p \in Procs : LoadSubmit(p)
  \/ \E p \in Procs : LoadResult(p)

SpecLoad == Init /\ [][NextLoad]_vars

\* --------------------------------------------------------- properties
ConfigLoaded == config.data # {}
Tree == CHOOSE t \in config.data : TRUE

\* the table name is a key of the loaded configuration's tables mapping
Present(name) == ConfigLoaded /\ name \in DOMAIN Tree.data.tables
Missing(name) == ConfigLoaded /\ name \notin DOMAIN Tree.data.tables

\* the configured value an accessor is documented to return
Configured(acc, name) ==
  IF acc = "table_id" THEN Tree.data.tables[name].table_id
  ELSE IF acc = "schema" THEN Tree.data.tables[name].schema
  ELSE IF acc = "dataset_id" THEN Tree.data.dataset_id
  ELSE Tree.data.location

Override(t, acc) == IF acc \in DOMAIN t.ovr THEN t.ovr[acc] ELSE None

\* C3 (as claimed): on a descriptor whose table name is present in the
\* configuration, every accessor call returns the override given at
\* construction, or else the configured value, and none raises.
C3_AccessorsReturnConfigured ==
  \A d \in Slots :
    LET t == tables[d]
    IN (t.status = "live" /\ Present(t.name)) =>
         \A acc \in Accessors :
           t.calls[acc] > 0 =>
             /\ t.last[acc].err = NoErr
             /\ t.last[acc].val = IF Override(t, acc) # None THEN Override(t, acc)
                                  ELSE Configured(acc, t.name)

\* C4 (as claimed): on a descriptor built without overrides each accessor
\* looks the configuration up at most once, and from its second call on it
\* returns the value of the first.
C4_LookupAtMostOnce ==
  \A d \in Slots :
    LET t == tables[d]
    IN (t.status = "live" /\ \A a \in DOMAIN t.ovr : t.ovr[a] = None) =>
         \A acc \in Accessors :
           /\ t.lookups[acc] <= 1
           /\ t.calls[acc] >= 2 => (t.last[acc].err = NoErr /\ t.last[acc] = t.first[acc])

\* C5: once a Config instance is installed, no step replaces it or its
\* data, and every construction attempt made from then on raises the usage
\* error, whatever its file name.
C5_SingletonStaysInstalled ==
  [][/\ config.instance # 0 =>
          (config'.instance = config.instance /\ config'.data = config.data)
     /\ (config.instance # 0 /\ cfgLast'.n # cfgLast.n) => cfgLast'.err = "UsageError"]_vars

C5_Witness ==
  /\ cfgLast.n >= 2
  /\ cfgLast.err = "UsageError"
  /\ config.instance # 0
  /\ ConfigLoaded

\* C10 (as claimed): an installed Config instance has its data loaded.
C10_InstalledHasData == config.instance # 0 => config.data # {}

IsPrefix(s, t) == Len(s) <= Len(t) /\ \A i \in 1..Len(s) : s[i] = t[i]

OrderWithoutCreate == <<"get_dataset", "get_table", "load_table_from_dataframe", "result">>
OrderWithCreate ==
  <<"get_dataset", "create_dataset", "get_table", "load_table_from_dataframe", "result">>

\* the outcome of a remote call that lets the load go on
GoesOn(l, i) ==
  \/ l.signals[i] = "ok"
  \/ l.signals[i] = "NotFound" /\ l.log[i] \in {"get_dataset", "get_table"}

\* C1: the remote calls of a load are issued in the order dataset check,
\* dataset creation exactly when the check signalled not-found, table
\* probe, submission, wait; each after its predecessor let the load go on;
\* and the load returns normally only after the wait has succeeded.
C1_RemoteCallOrder ==
  \A p \in Procs :
    LET l == load[p]
    IN /\ Len(l.signals) = Len(l.log)
       /\ (IsPrefix(l.log, OrderWithoutCreate) \/ IsPrefix(l.log, OrderWithCreate))
       /\ Len(l.log) >= 1 =>
            ((l.signals[1] = "NotFound") <=>
               (l.pc = "create_dataset" \/ (Len(l.log) >= 2 /\ l.log[2] = "create_dataset")))
       /\ \A i \in 1..Len(l.log) : i < Len(l.log) => GoesOn(l, i)
       /\ l.outcome = "ok" =>
            /\ l.pc = "done"
            /\ Len(l.log) >= 4
            /\ l.log[Len(l.log)] = "result"
            /\ l.signals[Len(l.log)] = "ok"

C1_Witness ==
  \E p, q \in Procs :
    /\ load[p].outcome = "ok" /\ load[p].log = OrderWithCreate
    /\ load[q].outcome = "ok" /\ load[q].log = OrderWithoutCreate

Probes(l) == {i \in 1..Len(l.log) : l.log[i] = "get_table"}

\* C2: job_config checks the table's existence exactly once and returns a
\* configuration with the schema it was given, WRITE_APPEND when the check
\* returned true and WRITE_EMPTY when it returned false, and nothing else.
C2_JobConfigPolicy ==
  \A p \in Procs :
    LET l == load[p]
    IN /\ Cardinality(Probes(l)) <= 1
       /\ l.job.write \in {"none", "WRITE_APPEND", "WRITE_EMPTY"}
       /\ (l.job.write = "none") <=> (l.exists = "unknown")
       /\ l.pc \in {"submit", "result"} => l.job.write # "none"
       /\ l.job.write # "none" =>
            /\ Cardinality(Probes(l)) = 1
            /\ l.job.schema = tables[l.tbl].last["schema"].val
            /\ \A i \in Probes(l) : (l.signals[i] = "ok") <=> (l.exists = "True")
            /\ (l.exists = "True") => l.job.write = "WRITE_APPEND"
            /\ (l.exists = "False") => l.job.write = "WRITE_EMPTY"

C2_Witness ==
  \E p, q \in Procs :
    /\ load[p].exists = "True" /\ load[p].job.write = "WRITE_APPEND"
    /\ load[q].exists = "False" /\ load[q].job.write = "WRITE_EMPTY"
    /\ load[p].job.schema = "schema:events"

\* C6 (as claimed): a not-found signal of any remote call other than the
\* table probe propagates to the caller of the load.
C6_NotFoundCaughtOnlyAtProbe ==
  \A p \in Procs :
    LET l == load[p]
    IN \A i \in 1..Len(l.log) :
         (l.signals[i] = "NotFound" /\ l.log[i] # "get_table") =>
           (l.pc = "done" /\ l.outcome = "NotFound" /\ i = Len(l.log))

\* C6 (amended): not-found is caught at two places.  The table probe turns
\* it into false (and success into true, any other failure propagating);
\* the dataset check answers it by creating the dataset.  A not-found of
\* the dataset creation, the submission or the wait propagates.
C6_NotFoundCaughtAtBothChecks ==
  \A p \in Procs :
    LET l == load[p]
    IN \A i \in 1..Len(l.log) :
         /\ l.log[i] = "get_table" =>
              /\ l.signals[i] = "ok" => l.exists = "True"
              /\ l.signals[i] = "NotFound" =>
                   (l.exists = "False" /\ (l.pc = "submit" \/ i < Len(l.log)))
              /\ l.signals[i] \notin {"ok", "NotFound"} =>
                   (l.pc = "done" /\ l.outcome = l.signals[i] /\ i = Len(l.log)
                    /\ l.exists = "unknown")
         /\ (l.log[i] = "get_dataset" /\ l.signals[i] = "NotFound") =>
              (l.pc = "create_dataset" \/ (i < Len(l.log) /\ l.log[i + 1] = "create_dataset"))
         /\ (l.log[i] \in {"create_dataset", "load_table_from_dataframe", "result"}
               /\ l.signals[i] = "NotFound") =>
              (l.pc = "done" /\ l.outcome = "NotFound" /\ i = Len(l.log))

C6_Witness ==
  \E p \in Procs :
    LET l == load[p]
    IN /\ l.log = OrderWithCreate
       /\ l.signals = <<"NotFound", "ok", "NotFound", "ok", "NotFound">>
       /\ l.exists = "False"
       /\ l.outcome = "NotFound"

\* a remote call's outcome that is a failure of the call: anything but
\* success and the not-found answer of one of the two existence checks
Fails(l, i) == ~GoesOn(l, i)

\* C7: within one load no remote call is issued twice, and the first
\* remote call that fails is the last one issued: the load ends there and
\* raises that failure, the write-guard failure of the wait included.
C7_FirstFailureAborts ==
  \A p \in Procs :
    LET l == load[p]
    IN /\ \A i, j \in 1..Len(l.log) : i # j => l.log[i] # l.log[j]
       /\ \A i \in 1..Len(l.log) :
            Fails(l, i) => (i = Len(l.log) /\ l.pc = "done" /\ l.outcome = l.signals[i])

C7_Witness ==
  \E p \in Procs :
    LET l == load[p]
    IN /\ l.pc = "done"
       /\ Len(l.log) = 5
       /\ l.signals[5] = "Duplicate"
       /\ l.outcome = "Duplicate"

\* two finished loads of non-empty data into one table that both found
\* absent
BothSawAbsent(p, q) ==
  /\ p # q
  /\ load[p].pc = "done" /\ load[q].pc = "done"
  /\ load[p].table_id # None /\ load[p].table_id = load[q].table_id
  /\ load[p].exists = "False" /\ load[q].exists = "False"
  /\ load[p].rows > 0 /\ load[q].rows > 0

\* C9: two loads of one table that both probed it absent both carry
\* WRITE_EMPTY, and they do not both succeed in writing rows: one of them
\* ends in a raised failure.
C9_GuardedRace ==
  \A p, q \in Procs :
    BothSawAbsent(p, q) =>
      /\ load[p].job.write = "WRITE_EMPTY" /\ load[q].job.write = "WRITE_EMPTY"
      /\ (load[p].outcome # "ok" \/ load[q].outcome # "ok")

C9_Witness ==
  \E p, q \in Procs :
    /\ BothSawAbsent(p, q)
    /\ load[p].outcome = "ok"
    /\ load[q].outcome = "Duplicate"
    /\ remote.tables[load[p].table_id] = load[p].rows

====
